---- MODULE Spec2Model ----
(***************************************************************************)
(* Model of networks/actor_critic.py: the two discounted-return routines,  *)
(* Policy.forward as seen by its callers, and the Agent (trajectory        *)
(* buffer, get_action, store_outcome, update_policy).                      *)
(*                                                                         *)
(* Numbers are exact rationals <<numerator, denominator>>; tensors are     *)
(* sequences; a call that raises is a record whose field "raised" names    *)
(* the exception.                                                          *)
(***************************************************************************)
EXTENDS Integers, Sequences, FiniteSets, TLC

\* ---------------------------------------------------------------- bounds
MaxLen == 3        \* longest sequence handed to the return routines
MaxBuf == 2        \* longest trajectory buffer explored
MaxUpdates == 2    \* most optimizer steps explored

\* ------------------------------------------------------ rational numbers
\* kept in lowest terms with a positive denominator, so equal numbers are
\* equal pairs
Abs(n) == IF n < 0 THEN -n ELSE n

RECURSIVE GCD(_, _)
GCD(a, b) == IF b = 0 THEN a ELSE GCD(b, a % b)

Reduce(n, d) == LET g == GCD(Abs(n), d) IN <<n \div g, d \div g>>

Rat(n) == <<n, 1>>

RatAdd(a, b) == Reduce(a[1] * b[2] + b[1] * a[2], a[2] * b[2])

RatMul(a, b) == Reduce(a[1] * b[1], a[2] * b[2])

RatEq(a, b) == a = b

\* ------------------------------------------------------------ input sets
None == "None"

Rewards == {-1, 2}

NextValues == {0, 5}

Gammas == {<<0, 1>>, <<1, 2>>, <<99, 100>>, <<1, 1>>}

SeqsUpTo(S, n) == UNION {[1..k -> S] : k \in 0..n}

\* zeros_like(r)
zeros_like(r) == [i \in 1..Len(r) |-> Rat(0)]

\* ----------------------------------------------------- discount_rewards
\* The loop of discount_rewards from index t (1-based; Python's t-1) down
\* to the first element, carrying running_add and the output tensor.
RECURSIVE discount_loop(_, _, _, _, _)
discount_loop(r, gamma, t, running_add, discounted_r) ==
    IF t = 0 THEN discounted_r
    ELSE LET ra == RatAdd(RatMul(running_add, gamma), Rat(r[t]))
         IN  discount_loop(r, gamma, t - 1, ra,
                           [discounted_r EXCEPT ![t] = ra])

\* a plausible slip: the reward is discounted instead of the accumulator
discount_rewards_mut(r, gamma) ==
    [t \in 1..Len(r) |->
        IF t = Len(r) THEN Rat(r[t])
        ELSE RatAdd(RatMul(Rat(r[t]), gamma), Rat(r[t + 1]))]

discount_rewards(r, gamma) ==
    discount_loop(r, gamma, Len(r), Rat(0), zeros_like(r))

\* ---------------------------------------- bootstrapped_discount_rewards
\* done[t] and next_values[t] are Python index operations: an index past
\* the end raises IndexError; elements past len(r) are never looked at.
RECURSIVE bootstrapped_loop(_, _, _, _, _, _, _)
bootstrapped_loop(r, gamma, done, next_values, t, running_add, out) ==
    IF t = 0 THEN [raised |-> "none", value |-> out]
    ELSE IF t > Len(done) THEN [raised |-> "IndexError", value |-> <<>>]
    ELSE IF done[t]
         THEN bootstrapped_loop(r, gamma, done, next_values, t - 1, Rat(0),
                                [out EXCEPT ![t] = RatAdd(Rat(0), Rat(r[t]))])
    ELSE IF t > Len(next_values)
         THEN [raised |-> "IndexError", value |-> <<>>]
    ELSE LET ra == RatMul(gamma, Rat(next_values[t]))
         IN  bootstrapped_loop(r, gamma, done, next_values, t - 1, ra,
                               [out EXCEPT ![t] = RatAdd(ra, Rat(r[t]))])

\* a plausible slip: the classic multi-step bootstrap, which chains the
\* accumulator across steps
RECURSIVE bootstrapped_loop_mut(_, _, _, _, _, _, _)
bootstrapped_loop_mut(r, gamma, done, next_values, t, running_add, out) ==
    IF t = 0 THEN [raised |-> "none", value |-> out]
    ELSE IF t > Len(done) THEN [raised |-> "IndexError", value |-> <<>>]
    ELSE IF done[t]
         THEN bootstrapped_loop_mut(r, gamma, done, next_values, t - 1,
                                    Rat(r[t]),
                                    [out EXCEPT ![t] = Rat(r[t])])
    ELSE IF t > Len(next_values)
         THEN [raised |-> "IndexError", value |-> <<>>]
    ELSE LET ra == IF t = Len(r)
                   THEN RatAdd(RatMul(gamma, Rat(next_values[t])), Rat(r[t]))
                   ELSE RatAdd(RatMul(gamma, running_add), Rat(r[t]))
         IN  bootstrapped_loop_mut(r, gamma, done, next_values, t - 1, ra,
                                   [out EXCEPT ![t] = ra])

bootstrapped_discount_rewards_mut(r, gamma, done, next_values) ==
    bootstrapped_loop_mut(r, gamma, done, next_values, Len(r), Rat(0),
                          zeros_like(r))

bootstrapped_discount_rewards(r, gamma, done, next_values) ==
    bootstrapped_loop(r, gamma, done, next_values, Len(r), Rat(0),
                      zeros_like(r))

\* ======================================================== program state
VARIABLES
    states,            \* Agent.states
    next_states,       \* Agent.next_states
    action_log_probs,  \* Agent.action_log_probs
    rewards,           \* Agent.rewards
    done,              \* Agent.done
    params,            \* policy parameters: number of optimizer steps applied
    optimizer_calls,   \* zero_grad / backward / step calls of the last call
    call,              \* the last call: its name and arguments
    raised,            \* exception the last call raised, or "none"
    at,                \* source line the exception surfaced at, 0 if none
    ret,               \* value the last call returned
    empty_rollout_raised, \* history: update_policy has failed on an empty buffer
    in_r,              \* inputs of the return routines
    in_gamma,
    in_done,
    in_next_values

buffer == <<states, next_states, action_log_probs, rewards, done>>

BufferEmpty ==
    /\ states = <<>> /\ next_states = <<>> /\ action_log_probs = <<>>
    /\ rewards = <<>> /\ done = <<>>

fn_inputs == <<in_r, in_gamma, in_done, in_next_values>>

vars == <<states, next_states, action_log_probs, rewards, done, params,
          optimizer_calls, call, raised, at, ret, empty_rollout_raised,
          in_r, in_gamma, in_done, in_next_values>>

\* --------------------------------------------------- argument values
NotArray == "NotArray"      \* a state argument that is not a numpy array

\* a reward argument: a number v, or a value torch.Tensor cannot hold
Number(v) == [number |-> TRUE, v |-> v]

NotNumber == [number |-> FALSE, v |-> 0]

States == {"s1", "s2"}

LogProbs == {"lp"}

StepRewards == {0, 1}

Samples == {"lo", "hi"}

Call(op, state, evaluation) ==
    [op |-> op, state |-> state, evaluation |-> evaluation]

\* ------------------------------------------------------------- Policy
\* attributes Policy.__init__ sets
PolicyAttributes ==
    {"state_space", "action_space", "hidden", "tanh", "embedding_ac", "relu",
     "fc1_ac", "lstm_ac", "fc2_actor", "fc2_critic", "sigma_activation",
     "sigma"}

\* attributes Policy.forward reads, in order
ForwardReads ==
    <<"embedding_ac", "relu", "fc1_ac", "relu", "lstm_ac", "fc2_actor",
      "sigma_activation", "sigma", "fc3_critic">>

\* Policy.forward(x) under parameters p: the first attribute that does not
\* exist raises AttributeError; otherwise the returned tuple (line 87).
forward(p, x) ==
    IF \E i \in 1..Len(ForwardReads) : ForwardReads[i] \notin PolicyAttributes
    THEN [raised |-> "AttributeError", value |-> <<>>]
    ELSE [raised |-> "none",
          value  |-> << [mean |-> <<"mean", p, x>>, sigma |-> <<"sigma", p>>] >>]

\* "a, b = self.policy(x)": propagates the exception of the call, and raises
\* ValueError unless the returned tuple has exactly two elements.
unpack2(res) ==
    IF res.raised # "none" THEN res
    ELSE IF Len(res.value) # 2 THEN [raised |-> "ValueError", value |-> <<>>]
    ELSE res

\* --------------------------------------------------------------- Agent
Init ==
    /\ states = <<>>
    /\ next_states = <<>>
    /\ action_log_probs = <<>>
    /\ rewards = <<>>
    /\ done = <<>>
    /\ params = 0
    /\ optimizer_calls = <<>>
    /\ call = Call("__init__", None, FALSE)
    /\ raised = "none"
    /\ at = 0
    /\ ret = None
    /\ empty_rollout_raised = FALSE
    /\ in_r = <<>>
    /\ in_gamma = <<99, 100>>
    /\ in_done = <<>>
    /\ in_next_values = <<>>

\* Agent.get_action(state, evaluation). A slip that updates the parameters
\* while selecting an action:
get_action_mut(state, evaluation) ==
    /\ params < MaxUpdates
    /\ call' = Call("get_action", state, evaluation)
    /\ params' = params + 1
    /\ raised' = "AttributeError" /\ at' = 144 /\ ret' = None
    /\ optimizer_calls' = <<>>
    /\ UNCHANGED <<buffer, fn_inputs, empty_rollout_raised>>

get_action(state, evaluation) ==
    /\ call' = Call("get_action", state, evaluation)
    /\ optimizer_calls' = <<>>
    /\ UNCHANGED <<buffer, params, fn_inputs, empty_rollout_raised>>
    /\ IF state = NotArray
       THEN raised' = "TypeError" /\ at' = 142 /\ ret' = None
       ELSE LET res == unpack2(forward(params, state))
            IN  IF res.raised # "none"
                THEN raised' = res.raised /\ at' = 144 /\ ret' = None
                ELSE LET normal_dist == res.value[1]
                     IN  /\ raised' = "none" /\ at' = 0
                         /\ IF evaluation
                            THEN ret' = <<normal_dist.mean, None>>
                            ELSE ret' \in
                                   {<<<<"sample", normal_dist, e>>,
                                      <<"log_prob", normal_dist, e>>>> :
                                        e \in Samples}

\* Agent.store_outcome(state, next_state, action_log_prob, reward, done)
store_outcome(state, next_state, action_log_prob, reward, d) ==
    /\ Len(states) < MaxBuf
    /\ call' = Call("store_outcome", state, FALSE)
    /\ optimizer_calls' = <<>>
    /\ ret' = None
    /\ UNCHANGED <<params, fn_inputs, empty_rollout_raised>>
    /\ IF state = NotArray
       THEN /\ raised' = "TypeError" /\ at' = 159
            /\ UNCHANGED buffer
       ELSE IF next_state = NotArray
       THEN /\ raised' = "TypeError" /\ at' = 160
            /\ states' = Append(states, state)
            /\ UNCHANGED <<next_states, action_log_probs, rewards, done>>
       ELSE IF ~reward.number
       THEN /\ raised' = "TypeError" /\ at' = 162
            /\ states' = Append(states, state)
            /\ next_states' = Append(next_states, next_state)
            /\ action_log_probs' = Append(action_log_probs, action_log_prob)
            /\ UNCHANGED <<rewards, done>>
       ELSE /\ raised' = "none" /\ at' = 0
            /\ states' = Append(states, state)
            /\ next_states' = Append(next_states, next_state)
            /\ action_log_probs' = Append(action_log_probs, action_log_prob)
            /\ rewards' = Append(rewards, <<reward.v>>)
            /\ done' = Append(done, d)

\* torch.stack(xs): raises on an empty list and on an element that is not a
\* tensor (all_tensors says whether every element is one)
stack(xs, all_tensors) ==
    IF Len(xs) = 0 THEN [raised |-> "RuntimeError", value |-> <<>>]
    ELSE IF ~all_tensors THEN [raised |-> "TypeError", value |-> <<>>]
    ELSE [raised |-> "none", value |-> xs]

\* lines 105-109 of update_policy: the first stack that raises, with its
\* line. Only action_log_probs holds what the caller passed; the other lists
\* hold tensors store_outcome built.
read_buffer ==
    LET a == stack(action_log_probs,
                   \A i \in 1..Len(action_log_probs) : action_log_probs[i] # None)
        s == stack(states, TRUE)
        n == stack(next_states, TRUE)
        w == stack(rewards, TRUE)
    IN  IF a.raised # "none" THEN [raised |-> a.raised, at |-> 105]
        ELSE IF s.raised # "none" THEN [raised |-> s.raised, at |-> 106]
        ELSE IF n.raised # "none" THEN [raised |-> n.raised, at |-> 107]
        ELSE IF w.raised # "none" THEN [raised |-> w.raised, at |-> 108]
        ELSE [raised |-> "none", at |-> 0]

\* line 111 of update_policy: each of the five lists is rebound to []
fresh_list_mut(old) == old

fresh_list(old) == <<>>

clear_buffer ==
    /\ states' = fresh_list(states)
    /\ next_states' = fresh_list(next_states)
    /\ action_log_probs' = fresh_list(action_log_probs)
    /\ rewards' = fresh_list(rewards)
    /\ done' = fresh_list(done)

\* the agent's discount factor
agent_gamma == <<99, 100>>

\* Agent.update_policy(); explored while fewer than MaxUpdates optimizer steps
\* have been applied. A slip that steps the optimizer before the Policy calls:
update_policy_mut ==
    /\ params < MaxUpdates
    /\ call' = Call("update_policy", None, FALSE)
    /\ ret' = None
    /\ UNCHANGED fn_inputs
    /\ empty_rollout_raised' = (empty_rollout_raised \/ BufferEmpty)
    /\ LET rd == read_buffer
       IN  IF rd.raised # "none"
           THEN /\ raised' = rd.raised /\ at' = rd.at
                /\ optimizer_calls' = <<>>
                /\ UNCHANGED <<buffer, params>>
           ELSE /\ clear_buffer
                /\ optimizer_calls' = <<"zero_grad", "backward", "step">>
                /\ params' = params + 1
                /\ LET v == unpack2(forward(params, states))
                   IN  raised' = v.raised /\ at' = 122

update_policy ==
    /\ params < MaxUpdates
    /\ call' = Call("update_policy", None, FALSE)
    /\ ret' = None
    /\ UNCHANGED fn_inputs
    /\ empty_rollout_raised' = (empty_rollout_raised \/ BufferEmpty)
    /\ LET rd == read_buffer
       IN  IF rd.raised # "none"
           THEN /\ raised' = rd.raised /\ at' = rd.at
                /\ optimizer_calls' = <<>>
                /\ UNCHANGED <<buffer, params>>
           ELSE LET rewards_t == [i \in 1..Len(rewards) |-> rewards[i][1]]
                    states_t == states
                    next_states_t == next_states
                    discounted_returns == discount_rewards(rewards_t, agent_gamma)
                    v == unpack2(forward(params, states_t))
                    nv == unpack2(forward(params, next_states_t))
                IN  /\ clear_buffer
                    /\ IF v.raised # "none"
                       THEN /\ raised' = v.raised /\ at' = 122
                            /\ optimizer_calls' = <<>>
                            /\ UNCHANGED params
                       ELSE IF nv.raised # "none"
                       THEN /\ raised' = nv.raised /\ at' = 123
                            /\ optimizer_calls' = <<>>
                            /\ UNCHANGED params
                       ELSE /\ raised' = "none" /\ at' = 0
                            /\ optimizer_calls' = <<"zero_grad", "backward", "step">>
                            /\ params' = params + 1

GetAction == \E state \in States \cup {NotArray}, evaluation \in BOOLEAN :
    get_action(state, evaluation)

StoreOutcome ==
    \E state \in States \cup {NotArray}, next_state \in States \cup {NotArray},
       action_log_prob \in LogProbs \cup {None},
       reward \in {Number(v) : v \in StepRewards} \cup {NotNumber}, d \in BOOLEAN :
        store_outcome(state, next_state, action_log_prob, reward, d)

UpdatePolicy == update_policy

Next == GetAction \/ StoreOutcome \/ UpdatePolicy

Spec == Init /\ [][Next]_vars

\* ------------------------------------------- the return routines alone
InitReturns ==
    /\ states = <<>>
    /\ next_states = <<>>
    /\ action_log_probs = <<>>
    /\ rewards = <<>>
    /\ done = <<>>
    /\ params = 0
    /\ optimizer_calls = <<>>
    /\ call = Call("__init__", None, FALSE)
    /\ raised = "none"
    /\ at = 0
    /\ ret = None
    /\ empty_rollout_raised = FALSE
    /\ in_r \in SeqsUpTo(Rewards, MaxLen)
    /\ in_gamma \in Gammas
    /\ in_done \in SeqsUpTo(BOOLEAN, MaxLen)
    /\ in_next_values \in SeqsUpTo(NextValues, MaxLen)

DiscountRewards ==
    /\ call' = Call("discount_rewards", None, FALSE)
    /\ raised' = "none" /\ at' = 0
    /\ ret' = discount_rewards(in_r, in_gamma)
    /\ UNCHANGED <<buffer, params, optimizer_calls, fn_inputs, empty_rollout_raised>>

BootstrappedDiscountRewards ==
    /\ call' = Call("bootstrapped_discount_rewards", None, FALSE)
    /\ LET res == bootstrapped_discount_rewards(in_r, in_gamma, in_done,
                                                in_next_values)
       IN  /\ raised' = res.raised
           /\ at' = IF res.raised = "none" THEN 0 ELSE 20
           /\ ret' = IF res.raised = "none" THEN res.value ELSE None
    /\ UNCHANGED <<buffer, params, optimizer_calls, fn_inputs, empty_rollout_raised>>

NextReturns == DiscountRewards \/ BootstrappedDiscountRewards

SpecReturns == InitReturns /\ [][NextReturns]_vars

\* =============================================================== claims
OptimizerStep == <<"zero_grad", "backward", "step">>

ReadLines == 105..109

\* the buffer holds n whole transitions whose log-probabilities are tensors
WholeTransitions(n) ==
    /\ Len(states) = n /\ Len(next_states) = n /\ Len(action_log_probs) = n
    /\ Len(rewards) = n /\ Len(done) = n
    /\ \A i \in 1..n : action_log_probs[i] # None

\* C1: discount_rewards(r, gamma) returns G of the length of r with
\* G[t] = r[t] + gamma * G[t+1], taking G past the end as 0; so the last
\* element of G is the last reward.
C1_DiscountRecurrence ==
    call.op = "discount_rewards" =>
        /\ raised = "none"
        /\ Len(ret) = Len(in_r)
        /\ \A t \in 1..Len(in_r) :
              RatEq(ret[t],
                    RatAdd(Rat(in_r[t]),
                           RatMul(in_gamma,
                                  IF t = Len(in_r) THEN Rat(0) ELSE ret[t + 1])))
        /\ Len(in_r) >= 1 => RatEq(ret[Len(in_r)], Rat(in_r[Len(in_r)]))

C1_Witness ==
    /\ call.op = "discount_rewards"
    /\ Len(in_r) >= 3
    /\ in_gamma = <<1, 2>>
    /\ ~RatEq(ret[1], Rat(in_r[1]))
    /\ ~RatEq(ret[2], ret[1])

\* C2: whenever bootstrapped_discount_rewards returns, its result at every
\* index t is r[t] if done[t] and r[t] + gamma * next_values[t] otherwise:
\* nothing is carried from one index to another.
C2_StepLocal ==
    (call.op = "bootstrapped_discount_rewards" /\ raised = "none") =>
        /\ Len(ret) = Len(in_r)
        /\ \A t \in 1..Len(in_r) :
              RatEq(ret[t],
                    IF in_done[t] THEN Rat(in_r[t])
                    ELSE RatAdd(Rat(in_r[t]),
                                RatMul(in_gamma, Rat(in_next_values[t]))))

C2_Witness ==
    /\ call.op = "bootstrapped_discount_rewards" /\ raised = "none"
    /\ Len(in_r) >= 3 /\ Len(in_done) = Len(in_r)
    /\ Len(in_next_values) = Len(in_r)
    /\ ~in_done[1] /\ ~in_done[2] /\ in_done[3]
    /\ in_next_values[1] # in_next_values[2]
    /\ in_gamma = <<99, 100>>

\* C3: an update_policy call on a non-empty buffer that completes, or fails
\* after the buffer has been read (lines 105-109), leaves all five lists
\* empty.
C3_DrainThenClear ==
    [][(call'.op = "update_policy" /\ ~BufferEmpty /\ at' \notin ReadLines)
          => BufferEmpty']_vars

C3_Witness ==
    /\ call.op = "update_policy"
    /\ raised # "none" /\ at > 111
    /\ BufferEmpty

\* a failure while the buffer is being read leaves the buffer as it was
C3_ReadFailureKeepsBuffer ==
    call.op = "update_policy" /\ at \in ReadLines /\ ~BufferEmpty

\* C4: update_policy on an empty buffer fails before any loss is computed and
\* leaves parameters and buffer unchanged; after such a failure, an
\* update_policy on a buffer of whole transitions completes.
C4_EmptyRolloutRecoverable ==
    [][call'.op = "update_policy" =>
          /\ BufferEmpty =>
                /\ raised' # "none" /\ at' = 105
                /\ optimizer_calls' = <<>>
                /\ params' = params
                /\ BufferEmpty'
          /\ (empty_rollout_raised /\ \E n \in 1..MaxBuf : WholeTransitions(n)) =>
                /\ raised' = "none"
                /\ optimizer_calls' = OptimizerStep]_vars

\* C5: bootstrapped_discount_rewards raises whenever done or next_values
\* differs in length from rewards.
C5_ShapeMismatch ==
    (/\ call.op = "bootstrapped_discount_rewards"
     /\ (Len(in_done) # Len(in_r) \/ Len(in_next_values) # Len(in_r)))
        => raised # "none"

\* C6: update_policy on a buffer of exactly one transition completes, applies
\* one optimizer step and leaves the buffer empty.
C6_SingleTransitionUpdate ==
    [][(call'.op = "update_policy" /\ WholeTransitions(1)) =>
          /\ raised' = "none"
          /\ optimizer_calls' = OptimizerStep
          /\ BufferEmpty']_vars

\* C7: the policy parameters change only in the optimizer step of
\* update_policy; get_action (either mode) and store_outcome leave them
\* unchanged.
C7_ParamsFrame ==
    [][/\ call'.op \in {"get_action", "store_outcome"} => params' = params
       /\ params' # params =>
             (call'.op = "update_policy" /\ optimizer_calls' = OptimizerStep)]_vars

C7_Witness ==
    /\ call.op = "get_action" /\ call.state \in States
    /\ WholeTransitions(1)
    /\ params = 0

\* C8: get_action(state, evaluation=True) returns the mean of the action
\* distribution, a function of parameters and state, with None.
C8_EvaluationMean ==
    (call.op = "get_action" /\ call.evaluation /\ call.state \in States) =>
        /\ raised = "none"
        /\ ret = << <<"mean", params, call.state>>, None >>

\* C9: the five buffered lists have equal length in every reachable state.
C9_EqualLengths ==
    /\ Len(next_states) = Len(states)
    /\ Len(action_log_probs) = Len(states)
    /\ Len(rewards) = Len(states)
    /\ Len(done) = Len(states)

\* C10: an update_policy call applies zero_grad, backward, step once and in
\* that order when it completes, and makes no optimizer call and leaves the
\* parameters unchanged when it raises.
C10_OneOptimizerStep ==
    [][call'.op = "update_policy" =>
          /\ raised' = "none" =>
                (optimizer_calls' = OptimizerStep /\ params' = params + 1)
          /\ raised' # "none" =>
                (optimizer_calls' = <<>> /\ params' = params)]_vars

C10_Witness ==
    /\ call.op = "update_policy"
    /\ raised = "AttributeError" /\ at = 122
    /\ optimizer_calls = <<>>
    /\ params = 0

====
